---------------------------- MODULE Spec2Model ----------------------------
(***************************************************************************)
(* A model of vanadium (src/src/main.rs): the locator (Url), the           *)
(* connection cache (RequestContext), the HTTP/1.1 request/response        *)
(* exchange, the redirect driver (load) and the renderer (show).           *)
(*                                                                         *)
(* Text is modelled by TLA+ strings, used as sequences of characters:      *)
(* Len, SubSeq, Head, Tail and \o act on them character by character.      *)
(* Wire text is ASCII, so that a character is a byte there.  In bodies     *)
(* handed to the renderer the character "E" stands for a two-byte UTF-8    *)
(* character (such as U+00E9): utf8_len gives each character's width.      *)
(***************************************************************************)
EXTENDS Integers, Sequences, FiniteSets, TLC

(***************************************************************************)
(* str: the operations of Rust's str that the program uses.                *)
(***************************************************************************)
Ch(s, i) == SubSeq(s, i, i)

starts_with(s, p) == Len(s) >= Len(p) /\ SubSeq(s, 1, Len(p)) = p

\* The 1-based index of the first occurrence of p in s, 0 when there is none.
find(s, p) ==
    LET I == {i \in 1..(Len(s) - Len(p) + 1) : SubSeq(s, i, i + Len(p) - 1) = p}
    IN  IF I = {} THEN 0 ELSE CHOOSE i \in I : \A j \in I : i <= j

contains(s, p) == find(s, p) # 0

\* s without the prefix p (the caller has checked starts_with).
strip_prefix(s, p) == SubSeq(s, Len(p) + 1, Len(s))

\* The text before and after the first occurrence of p (the caller has
\* checked contains).
split_once(s, p) ==
    LET i == find(s, p)
    IN  <<SubSeq(s, 1, i - 1), SubSeq(s, i + Len(p), Len(s))>>

Digits == "0123456789"

DigitVal(c) == find(Digits, c) - 1

IsDigit(c) == Len(c) = 1 /\ contains(Digits, c)

RECURSIVE DecimalValue(_)
DecimalValue(s) ==
    IF s = "" THEN 0
    ELSE 10 * DecimalValue(SubSeq(s, 1, Len(s) - 1)) + DigitVal(Ch(s, Len(s)))

RECURSIVE strip_zeros(_)
strip_zeros(s) == IF starts_with(s, "0") THEN strip_zeros(Tail(s)) ELSE s

\* str::parse for an unsigned integer of the given maximum: an optional '+',
\* then one or more digits, the value within range; -1 stands for Err.
\* (A number of more than 9 significant digits is Err here also for usize,
\* where the program would go on to fail for lack of that many bytes.)
parse_uint(s, max) ==
    LET d == IF starts_with(s, "+") THEN strip_prefix(s, "+") ELSE s
        sig == strip_zeros(d)
    IN  IF d = "" \/ \E i \in 1..Len(d) : ~IsDigit(Ch(d, i)) THEN -1
        ELSE IF Len(sig) > 9 THEN -1
        ELSE IF DecimalValue(sig) > max THEN -1
        ELSE DecimalValue(sig)

U16Max == 65535
UsizeModelMax == 999999999

\* format!("{n}") of an unsigned integer.
RECURSIVE to_string(_)
to_string(n) ==
    IF n < 10 THEN Ch(Digits, n + 1)
    ELSE to_string(n \div 10) \o Ch(Digits, (n % 10) + 1)

Upper == "ABCDEFGHIJKLMNOPQRSTUVWXYZ"
Lower == "abcdefghijklmnopqrstuvwxyz"

RECURSIVE to_lowercase(_)
to_lowercase(s) ==
    IF s = "" THEN ""
    ELSE LET c == Head(s)
             i == find(Upper, c)
         IN  (IF i = 0 THEN c ELSE Ch(Lower, i)) \o to_lowercase(Tail(s))

IsSpace(c) == c \in {" ", "\t", "\r", "\n"}

RECURSIVE trim_end(_)
trim_end(s) ==
    IF s # "" /\ IsSpace(Ch(s, Len(s))) THEN trim_end(SubSeq(s, 1, Len(s) - 1))
    ELSE s

RECURSIVE trim_start(_)
trim_start(s) ==
    IF s # "" /\ IsSpace(Head(s)) THEN trim_start(Tail(s)) ELSE s

trim(s) == trim_start(trim_end(s))

(***************************************************************************)
(* PathBuf: a path keeps its text (Display shows it unchanged), and two    *)
(* paths are equal when their components are.  On Unix the components are  *)
(* the root, if the text starts with '/', and the names between            *)
(* separators: empty names (repeated or trailing separators) are dropped,  *)
(* and so is "." except at the start of a relative path.                   *)
(***************************************************************************)
RECURSIVE SplitNames(_)
SplitNames(p) ==
    IF p = "" THEN <<>>
    ELSE IF contains(p, "/")
         THEN <<split_once(p, "/")[1]>> \o SplitNames(split_once(p, "/")[2])
         ELSE <<p>>

components(p) ==
    LET root  == starts_with(p, "/")
        names == SplitNames(p)
        keep  == {i \in 1..Len(names) :
                     /\ names[i] # ""
                     /\ (names[i] = "." => (i = 1 /\ ~root))}
        RECURSIVE Pick(_)
        Pick(i) == IF i > Len(names) THEN <<>>
                   ELSE (IF i \in keep THEN <<names[i]>> ELSE <<>>) \o Pick(i + 1)
    IN  [root |-> root, names |-> Pick(1)]

PathBuf_eq(p, q) == components(p) = components(q)

(***************************************************************************)
(* Url: the locator.  Every variant is a record with the same fields; a    *)
(* field a variant does not have holds "" (addr: <<"", 0>>).  A panic      *)
(* of a constructor is the value Panic(msg).                               *)
(***************************************************************************)
NoAddr == <<"", 0>>

Http(view_source, addr, path) ==
    [kind |-> "Http", view_source |-> view_source, addr |-> addr, path |-> path,
     media_type |-> "", content |-> ""]

Https(view_source, addr, path) ==
    [kind |-> "Https", view_source |-> view_source, addr |-> addr, path |-> path,
     media_type |-> "", content |-> ""]

File(view_source, path) ==
    [kind |-> "File", view_source |-> view_source, addr |-> NoAddr, path |-> path,
     media_type |-> "", content |-> ""]

Data(view_source, media_type, content) ==
    [kind |-> "Data", view_source |-> view_source, addr |-> NoAddr, path |-> "",
     media_type |-> media_type, content |-> content]

Panic(msg) == [kind |-> "Panic", msg |-> msg]

IsPanic(v) == v.kind = "Panic"

IsNetwork(u) == u.kind \in {"Http", "Https"}

\* #[derive(PartialEq)] on Url: the same variant and every field equal, the
\* path fields by PathBuf's equality.
Url_eq(a, b) ==
    /\ a.kind = b.kind
    /\ a.view_source = b.view_source
    /\ a.addr = b.addr
    /\ PathBuf_eq(a.path, b.path)
    /\ a.media_type = b.media_type
    /\ a.content = b.content

\* Vec::contains over the visited locators.
path_contains(p, u) == \E i \in 1..Len(p) : Url_eq(p[i], u)

DefaultHttpPort == 80
DefaultHttpsPort == 443

\* new_network with the port of the scheme whatever the text gives.
new_network_default_port(view_source, scheme, hostport, path) ==
    IF scheme \notin {"http", "https"} THEN Panic("UnsupportedScheme")
    ELSE IF contains(hostport, ":") /\ parse_uint(split_once(hostport, ":")[2], U16Max) < 0
    THEN Panic("MalformedLocator")
    ELSE [kind |-> IF scheme = "http" THEN "Http" ELSE "Https",
          view_source |-> view_source,
          addr |-> <<IF contains(hostport, ":") THEN split_once(hostport, ":")[1]
                     ELSE hostport,
                     IF scheme = "http" THEN DefaultHttpPort ELSE DefaultHttpsPort>>,
          path |-> "/" \o path,
          media_type |-> "", content |-> ""]

\* new_network with the path as the text after the first '/', not re-prefixed.
new_network_bare_path(view_source, scheme, hostport, path) ==
    IF scheme \notin {"http", "https"} THEN Panic("UnsupportedScheme")
    ELSE IF contains(hostport, ":") /\ parse_uint(split_once(hostport, ":")[2], U16Max) < 0
    THEN Panic("MalformedLocator")
    ELSE [kind |-> IF scheme = "http" THEN "Http" ELSE "Https",
          view_source |-> view_source,
          addr |-> IF contains(hostport, ":")
                   THEN <<split_once(hostport, ":")[1],
                          parse_uint(split_once(hostport, ":")[2], U16Max)>>
                   ELSE <<hostport,
                          IF scheme = "http" THEN DefaultHttpPort ELSE DefaultHttpsPort>>,
          path |-> path,
          media_type |-> "", content |-> ""]

\* Url::new from the host and port on: hostport is the text before the first
\* '/' after "://", path the text after it.
new_network(view_source, scheme, hostport, path) ==
    IF scheme \notin {"http", "https"} THEN Panic("UnsupportedScheme")
    ELSE IF contains(hostport, ":") /\ parse_uint(split_once(hostport, ":")[2], U16Max) < 0
    THEN Panic("MalformedLocator")
    ELSE [kind |-> IF scheme = "http" THEN "Http" ELSE "Https",
          view_source |-> view_source,
          addr |-> IF contains(hostport, ":")
                   THEN <<split_once(hostport, ":")[1],
                          parse_uint(split_once(hostport, ":")[2], U16Max)>>
                   ELSE <<hostport,
                          IF scheme = "http" THEN DefaultHttpPort ELSE DefaultHttpsPort>>,
          path |-> "/" \o path,
          media_type |-> "", content |-> ""]

\* Url::new after the split at "://": the file variant, or the split of the
\* remainder (with a '/' pushed when it holds none) at its first '/'.
new_scheme(view_source, scheme, after) ==
    IF scheme = "file" THEN File(view_source, after)
    ELSE IF contains(after, "/")
    THEN new_network(view_source, scheme,
                     split_once(after, "/")[1], split_once(after, "/")[2])
    ELSE new_network(view_source, scheme, after, "")

\* Url::new after the "view-source:" marker is taken off.
new_stripped(view_source, url) ==
    IF starts_with(url, "data:")
    THEN IF ~contains(strip_prefix(url, "data:"), ",") THEN Panic("MalformedLocator")
         ELSE Data(view_source, split_once(strip_prefix(url, "data:"), ",")[1],
                   split_once(strip_prefix(url, "data:"), ",")[2])
    ELSE IF ~contains(url, "://") THEN Panic("MalformedLocator")
    ELSE new_scheme(view_source, split_once(url, "://")[1], split_once(url, "://")[2])

Url_new(raw) ==
    IF starts_with(raw, "view-source:")
    THEN new_stripped(TRUE, strip_prefix(raw, "view-source:"))
    ELSE new_stripped(FALSE, raw)

\* display_host with the host alone on either default port.
display_host_any_default(u) ==
    IF u.addr[2] \in {DefaultHttpPort, DefaultHttpsPort}
    THEN u.addr[1]
    ELSE u.addr[1] \o ":" \o to_string(u.addr[2])

display_host(u) ==
    IF (u.kind = "Http" /\ u.addr[2] = DefaultHttpPort)
       \/ (u.kind = "Https" /\ u.addr[2] = DefaultHttpsPort)
    THEN u.addr[1]
    ELSE u.addr[1] \o ":" \o to_string(u.addr[2])

\* follow with the flag of the locator followed from kept on a path redirect.
follow_keeps_view_source(u, location) ==
    IF IsNetwork(u) /\ ~starts_with(location, "/") THEN Url_new(location)
    ELSE IF u.kind = "Http" THEN Http(u.view_source, u.addr, location)
    ELSE IF u.kind = "Https" THEN Https(u.view_source, u.addr, location)
    ELSE Panic("UnsupportedOperation")

follow(u, location) ==
    IF IsNetwork(u) /\ ~starts_with(location, "/") THEN Url_new(location)
    ELSE IF u.kind = "Http" THEN Http(FALSE, u.addr, location)
    ELSE IF u.kind = "Https" THEN Https(FALSE, u.addr, location)
    ELSE Panic("UnsupportedOperation")

(***************************************************************************)
(* The HTTP exchange.  A connection's received bytes are the text rx, of   *)
(* which the buffered reader has consumed the first pos.                   *)
(***************************************************************************)
\* Url::request, the text written for a Network locator.
request_text(u) ==
    "GET " \o u.path \o " HTTP/1.1\r\n"
    \o "Host: " \o display_host(u) \o "\r\n"
    \o "Connection: keep-alive\r\n"
    \o "User-Agent: vanadium/0.1.0\r\n"
    \o "\r\n"

\* BufRead::read_line: the text up to and including the next '\n', or up to
\* the end of the stream; <<line, position after it>>.
read_line(rx, pos) ==
    LET rest == SubSeq(rx, pos + 1, Len(rx))
        n == find(rest, "\n")
    IN  IF n = 0 THEN <<rest, Len(rx)>> ELSE <<SubSeq(rest, 1, n), pos + n>>

\* The header loop of read_response: the map of the headers read from pos on,
\* [err, headers, pos].  A later header of the same name replaces an earlier.
RECURSIVE read_headers(_, _, _)
RECURSIVE header_line(_, _, _)
read_headers(rx, pos, headers) == header_line(rx, read_line(rx, pos), headers)

header_line(rx, l, headers) ==
    IF trim_end(l[1]) = "" THEN [err |-> "", headers |-> headers, pos |-> l[2]]
    ELSE IF ~contains(l[1], ":")
    THEN [err |-> "MalformedHeader", headers |-> headers, pos |-> l[2]]
    ELSE read_headers(rx, l[2],
            (to_lowercase(split_once(l[1], ":")[1]) :> trim(split_once(l[1], ":")[2]))
            @@ [h \in DOMAIN headers \ {to_lowercase(split_once(l[1], ":")[1])} |-> headers[h]])

\* is_redirect true of every status of the class 3xx.
is_redirect_any_3xx(status) == status \in 300..399

is_redirect(status) == status \in {301, 302, 303, 307, 308}

Failed(msg, pos) == [kind |-> "Panic", value |-> msg, pos |-> pos]

\* body_taken with the body of a redirect left unread.
body_taken_unless_redirect(status, content_length) ==
    IF is_redirect(status) THEN 0 ELSE content_length

\* The number of body bytes read_exact takes off the reader: content-length of
\* them, whatever the status (the body is read before the status is looked at).
body_taken(status, content_length) == content_length

\* read_response from read_exact on: pos is the position after the headers
\* and taken the number of bytes to read.
read_body(rx, status, headers, pos, taken) ==
    IF pos + taken > Len(rx) THEN Failed("Io", Len(rx))
    ELSE IF is_redirect(status)
    THEN IF "location" \notin DOMAIN headers THEN Failed("MissingLocation", pos + taken)
         ELSE [kind |-> "Redirect", value |-> headers["location"], pos |-> pos + taken]
    ELSE [kind |-> "Ok", value |-> SubSeq(rx, pos + 1, pos + taken), pos |-> pos + taken]

\* check_headers with content-length looked up before the two assertions.
check_headers_length_first(rx, status, headers, pos) ==
    IF "content-length" \notin DOMAIN headers THEN Failed("MissingContentLength", pos)
    ELSE IF "transfer-encoding" \in DOMAIN headers \/ "content-encoding" \in DOMAIN headers
    THEN Failed("UnsupportedEncoding", pos)
    ELSE IF parse_uint(headers["content-length"], UsizeModelMax) < 0
    THEN Failed("MalformedContentLength", pos)
    ELSE read_body(rx, status, headers, pos,
                   body_taken(status, parse_uint(headers["content-length"], UsizeModelMax)))

\* read_response from the two assertions on the headers on.
check_headers(rx, status, headers, pos) ==
    IF "transfer-encoding" \in DOMAIN headers \/ "content-encoding" \in DOMAIN headers
    THEN Failed("UnsupportedEncoding", pos)
    ELSE IF "content-length" \notin DOMAIN headers THEN Failed("MissingContentLength", pos)
    ELSE IF parse_uint(headers["content-length"], UsizeModelMax) < 0
    THEN Failed("MalformedContentLength", pos)
    ELSE read_body(rx, status, headers, pos,
                   body_taken(status, parse_uint(headers["content-length"], UsizeModelMax)))

\* read_response from the header loop on.
after_status(rx, status, hs) ==
    IF hs.err # "" THEN Failed(hs.err, hs.pos)
    ELSE check_headers(rx, status, hs.headers, hs.pos)

\* statusline.splitn(3, ' '): the version, the status and the explanation must
\* all be there, and the status a number.
parse_status(rx, after, pos) ==
    IF ~contains(after, " ") \/ parse_uint(split_once(after, " ")[1], U16Max) < 0
    THEN Failed("MalformedStatusLine", pos)
    ELSE after_status(rx, parse_uint(split_once(after, " ")[1], U16Max),
                      read_headers(rx, pos, <<>>))

status_line(rx, sl) ==
    IF ~contains(sl[1], " ") THEN Failed("MalformedStatusLine", sl[2])
    ELSE parse_status(rx, split_once(sl[1], " ")[2], sl[2])

read_response(rx, pos0) == status_line(rx, read_line(rx, pos0))

\* A server's response, [status, reason, headers, body], as sent on the wire.
RECURSIVE HeaderLines(_)
HeaderLines(hs) ==
    IF hs = <<>> THEN ""
    ELSE hs[1][1] \o ": " \o hs[1][2] \o "\r\n" \o HeaderLines(Tail(hs))

Wire(r) ==
    "HTTP/1.1 " \o to_string(r.status) \o " " \o r.reason \o "\r\n"
    \o HeaderLines(r.headers) \o "\r\n" \o r.body

(***************************************************************************)
(* The renderer.  show walks the body with a char_indices iterator: pos is *)
(* the index of the next character the iterator yields, and the i of       *)
(* (i, c) is c's byte offset.  Slices and find work in bytes, nth in       *)
(* characters.                                                             *)
(***************************************************************************)
utf8_len(c) == IF c = "E" THEN 2 ELSE 1

RECURSIVE byte_len(_)
byte_len(s) == IF s = "" THEN 0 ELSE utf8_len(Head(s)) + byte_len(Tail(s))

\* str::find of a one-byte character: its byte offset, -1 for None.
byte_find(s, c) ==
    IF contains(s, c) THEN byte_len(SubSeq(s, 1, find(s, c) - 1)) ELSE -1

\* &s[from..to]: the characters lying within the byte range.
byte_slice(s, from, to) ==
    LET inside == {k \in 1..Len(s) :
                      /\ byte_len(SubSeq(s, 1, k - 1)) >= from
                      /\ byte_len(SubSeq(s, 1, k)) <= to}
    IN  IF inside = {} THEN ""
        ELSE SubSeq(s, CHOOSE k \in inside : \A m \in inside : k <= m,
                       CHOOSE k \in inside : \A m \in inside : k >= m)

\* read_entity with Ok((i, decoded)): the count of Unsupported in the Ok arm.
read_entity_skips_one(body) ==
    LET i == byte_find(body, ";")
    IN  IF i < 0 THEN [kind |-> "Eof", n |-> 0, entity |-> ""]
        ELSE IF byte_slice(body, 1, i) = "lt" THEN [kind |-> "Ok", n |-> i, entity |-> "<"]
        ELSE IF byte_slice(body, 1, i) = "gt" THEN [kind |-> "Ok", n |-> i, entity |-> ">"]
        ELSE [kind |-> "Unsupported", n |-> i, entity |-> ""]

\* read_entity with a missing ';' taken for an unknown entity that ends at
\* the '&'.
read_entity_eof_as_unsupported(body) ==
    LET i == byte_find(body, ";")
    IN  IF i < 0 THEN [kind |-> "Unsupported", n |-> 0, entity |-> ""]
        ELSE IF byte_slice(body, 1, i) = "lt" THEN [kind |-> "Ok", n |-> i - 1, entity |-> "<"]
        ELSE IF byte_slice(body, 1, i) = "gt" THEN [kind |-> "Ok", n |-> i - 1, entity |-> ">"]
        ELSE [kind |-> "Unsupported", n |-> i, entity |-> ""]

\* read_entity: Ok((i - 1, decoded)), Unsupported(i) or Eof, i the byte offset
\* of the first ';'.
read_entity(body) ==
    LET i == byte_find(body, ";")
    IN  IF i < 0 THEN [kind |-> "Eof", n |-> 0, entity |-> ""]
        ELSE IF byte_slice(body, 1, i) = "lt" THEN [kind |-> "Ok", n |-> i - 1, entity |-> "<"]
        ELSE IF byte_slice(body, 1, i) = "gt" THEN [kind |-> "Ok", n |-> i - 1, entity |-> ">"]
        ELSE [kind |-> "Unsupported", n |-> i, entity |-> ""]

\* Iterator::nth(n) on the iterator at pos: n + 1 characters are taken, or
\* all that are left.
nth(body, pos, n) == IF pos + n + 1 > Len(body) + 1 THEN Len(body) + 1 ELSE pos + n + 1

ShowStart == [pos |-> 1, in_tag |-> FALSE, out |-> ""]

ShowDone(body, st) == st.pos > Len(body)

\* One turn of show's while loop from the state st.
ShowStep(body, st) ==
    LET c == Ch(body, st.pos)
        i == byte_len(SubSeq(body, 1, st.pos - 1))
        rest == SubSeq(body, st.pos, Len(body))
        next == st.pos + 1
    IN  IF c = "<" THEN [pos |-> next, in_tag |-> TRUE, out |-> st.out]
        ELSE IF c = ">" THEN [pos |-> next, in_tag |-> FALSE, out |-> st.out]
        ELSE IF c = "&"
             THEN LET e == read_entity(rest)
                  IN  IF e.kind = "Ok"
                      THEN [pos |-> nth(body, next, e.n), in_tag |-> st.in_tag,
                            out |-> st.out \o e.entity]
                      ELSE IF e.kind = "Eof"
                      THEN [pos |-> nth(body, next, byte_len(rest)), in_tag |-> st.in_tag,
                            out |-> st.out \o rest]
                      ELSE [pos |-> nth(body, next, e.n), in_tag |-> st.in_tag,
                            out |-> st.out \o byte_slice(body, i, i + e.n + 1)]
        ELSE IF ~st.in_tag THEN [pos |-> next, in_tag |-> FALSE, out |-> st.out \o c]
        ELSE [pos |-> next, in_tag |-> TRUE, out |-> st.out]

RECURSIVE ShowFrom(_, _)
ShowFrom(body, st) == IF ShowDone(body, st) THEN st.out ELSE ShowFrom(body, ShowStep(body, st))

\* The text show prints.
show(body) == ShowFrom(body, ShowStart)

\* str::lines: the lines without their terminators ("\n" or "\r\n"); a final
\* line terminator opens no further line.
RECURSIVE lines(_)
lines(s) ==
    IF s = "" THEN <<>>
    ELSE LET n == find(s, "\n")
             l == IF n = 0 THEN s ELSE SubSeq(s, 1, n - 1)
             stripped == IF n # 0 /\ l # "" /\ Ch(l, Len(l)) = "\r"
                         THEN SubSeq(l, 1, Len(l) - 1) ELSE l
         IN  <<stripped>> \o (IF n = 0 THEN <<>> ELSE lines(SubSeq(s, n + 1, Len(s))))

\* format!("{number:>6}")
RECURSIVE pad6(_)
pad6(t) == IF Len(t) >= 6 THEN t ELSE pad6(" " \o t)

RECURSIVE NumberLines(_, _)
NumberLines(ls, number) ==
    IF ls = <<>> THEN ""
    ELSE pad6(to_string(number)) \o " " \o ls[1] \o "\n" \o NumberLines(Tail(ls), number + 1)

\* The text show_source prints.
show_source(body) == NumberLines(lines(body), 1)

(***************************************************************************)
(* RequestContext: inner maps an authority to its buffered transport,      *)
(* [kind, id, tx, rx, pos]: the stream's variant, the number of the        *)
(* construction that made it, the text written to it, the text received    *)
(* on it and how much of that the reader has consumed.  built counts the   *)
(* constructions.                                                          *)
(***************************************************************************)
RequestContext_default == [inner |-> <<>>, built |-> 0]

build_reader(url, id) ==
    [kind |-> IF url.kind = "Http" THEN "Tcp" ELSE "Tls",
     id |-> id, tx |-> "", rx |-> "", pos |-> 0]

\* reader with the lookup left out: a transport is built on every call.
reader_rebuilds(ctx, url) ==
    [inner |-> (url.addr :> build_reader(url, ctx.built + 1))
               @@ [a \in DOMAIN ctx.inner \ {url.addr} |-> ctx.inner[a]],
     built |-> ctx.built + 1]

reader(ctx, url) ==
    IF url.addr \in DOMAIN ctx.inner THEN ctx
    ELSE [inner |-> (url.addr :> build_reader(url, ctx.built + 1)) @@ ctx.inner,
          built |-> ctx.built + 1]

\* s.write_all(request) on ctx.stream(url), then ctx.reader(url).
write_all(ctx, addr, text) ==
    [ctx EXCEPT !.inner = [a \in DOMAIN ctx.inner |->
                              IF a = addr
                              THEN [ctx.inner[a] EXCEPT !.tx = ctx.inner[a].tx \o text]
                              ELSE ctx.inner[a]]]

send(ctx, url) == reader(write_all(reader(ctx, url), url.addr, request_text(url)), url)

\* The reader of an authority after the consumption of its text up to pos.
consumed(ctx, addr, pos) ==
    [ctx EXCEPT !.inner = [a \in DOMAIN ctx.inner |->
                              IF a = addr THEN [ctx.inner[a] EXCEPT !.pos = pos]
                              ELSE ctx.inner[a]]]

\* The arrival of text from the server on an authority's transport.
received(ctx, addr, text) ==
    [ctx EXCEPT !.inner = [a \in DOMAIN ctx.inner |->
                              IF a = addr
                              THEN [ctx.inner[a] EXCEPT !.rx = ctx.inner[a].rx \o text]
                              ELSE ctx.inner[a]]]

(***************************************************************************)
(* load                                                                    *)
(***************************************************************************)
MAX_REDIRECTS == 10

\* check_follower with the assertion on path.contains left out.
check_follower_no_cycle(path, follower) ==
    IF IsPanic(follower)
    THEN [panic |-> follower.msg, path |-> path, follower |-> follower]
    ELSE IF ~(Len(path) + 1 < MAX_REDIRECTS)
    THEN [panic |-> "TooManyRedirects", path |-> Append(path, follower),
          follower |-> follower]
    ELSE [panic |-> "", path |-> Append(path, follower), follower |-> follower]

\* check_follower with the assertion on path.len() left out.
check_follower_no_limit(path, follower) ==
    IF IsPanic(follower)
    THEN [panic |-> follower.msg, path |-> path, follower |-> follower]
    ELSE IF path_contains(path, follower)
    THEN [panic |-> "RedirectCycle", path |-> path, follower |-> follower]
    ELSE [panic |-> "", path |-> Append(path, follower), follower |-> follower]

\* The Redirect arm of load's loop after head.follow: [panic, path, follower].
check_follower(path, follower) ==
    IF IsPanic(follower)
    THEN [panic |-> follower.msg, path |-> path, follower |-> follower]
    ELSE IF path_contains(path, follower)
    THEN [panic |-> "RedirectCycle", path |-> path, follower |-> follower]
    ELSE IF ~(Len(path) + 1 < MAX_REDIRECTS)
    THEN [panic |-> "TooManyRedirects", path |-> Append(path, follower),
          follower |-> follower]
    ELSE [panic |-> "", path |-> Append(path, follower), follower |-> follower]

\* The Redirect arm of load's loop.
on_redirect(path, location) == check_follower(path, follow(path[Len(path)], location))

\* on_ok with the flag of the locator that was fetched last.
on_ok_by_head(view_source, head, body) ==
    IF head.view_source THEN [mode |-> "show_source", out |-> show_source(body)]
    ELSE [mode |-> "show", out |-> show(body)]

\* The Ok arms of load's loop: the body is shown as source when the flag
\* captured from the initial locator is set.
on_ok(view_source, head, body) ==
    IF view_source THEN [mode |-> "show_source", out |-> show_source(body)]
    ELSE [mode |-> "show", out |-> show(body)]

(***************************************************************************)
(* The environment: the locator given on the command line, the servers'    *)
(* answers and the file system.  The servers answer the k-th request of a  *)
(* run with the k-th response of a script chosen at the start, and with    *)
(* Page once the script is used up; every response is framed correctly     *)
(* (its Content-Length, when it has one, is the length of its body).       *)
(***************************************************************************)
MaxChain == 11
MaxSpecial == 2

Statuses == <<301, 302, 303, 307, 308>>

Moved(status, location) ==
    [status |-> status, reason |-> "Moved",
     headers |-> <<<<"Location", location>>, <<"Content-Length", "5">>>>,
     body |-> "moved"]

Page ==
    [status |-> 200, reason |-> "OK",
     headers |-> <<<<"Content-Type", "text/html">>, <<"Content-Length", "11">>>>,
     body |-> "<b>&lt;</b>"]

\* Redirects to /1, /2, ..., /n, then (back >= 0) one to /back.
Numbered(n, back) ==
    [k \in 1..n |-> Moved(Statuses[(k % 5) + 1], "/" \o to_string(k))]
    \o (IF back >= 0 THEN <<Moved(301, "/" \o to_string(back))>> ELSE <<>>)

SpecialResponses ==
    { Moved(301, "/d/"), Moved(302, "//d"), Moved(307, "https://a/s"),
      Moved(308, "http://a:443/p"), Moved(303, "view-source:http://b/v"),
      Moved(301, "file:///tmp/x"), Moved(302, "data:text/html,<i>x</i>"),
      [status |-> 302, reason |-> "Found",
       headers |-> <<<<"content-length", "0">>, <<"LOCATION", " /d ">>>>, body |-> ""],
      [status |-> 404, reason |-> "Not Found",
       headers |-> <<<<"Content-Length", "4">>>>, body |-> "gone"],
      [status |-> 200, reason |-> "OK",
       headers |-> <<<<"Transfer-Encoding", "chunked">>>>, body |-> "0\r\n\r\n"],
      [status |-> 301, reason |-> "Moved",
       headers |-> <<<<"Content-Length", "0">>>>, body |-> ""],
      [status |-> 200, reason |-> "OK", headers |-> <<>>, body |-> ""] }

RECURSIVE SeqsUpTo(_, _)
SeqsUpTo(S, n) ==
    IF n = 0 THEN {<<>>}
    ELSE LET shorter == SeqsUpTo(S, n - 1)
         IN  shorter \cup {Append(q, e) : q \in shorter, e \in S}

Scripts ==
    {Numbered(n, back) : n \in 0..MaxChain, back \in -1..MaxChain}
    \cup SeqsUpTo(SpecialResponses, MaxSpecial)

InitUrls ==
    { "http://a/0", "view-source:http://a/d", "https://a/0", "http://a:443/d",
      "http://a/2/", "data:text/html,<i>x</i>", "view-source:file:///tmp/x",
      "gopher://a/" }

\* The bodies show is run on by itself: the texts of up to MaxTokens tokens,
\* and the examples of the specification.
MaxTokens == 3

Tokens == {"<", ">", "&", ";", "a", "lt", "&lt;", "&gt;", "&x;", "E"}

RECURSIVE Texts(_)
Texts(n) ==
    IF n = 0 THEN {""}
    ELSE Texts(n - 1) \cup {t \o k : t \in Texts(n - 1), k \in Tokens}

Bodies == Texts(MaxTokens) \cup {"<b>hi &lt; there</b>", "x&lt"}

\* What fs::read_to_string can find at a path; NoFile: the read fails.
NoFile == "\n(no such file)"
FileContents == {"<p>x</p>\n", NoFile}

(***************************************************************************)
(* The state.                                                              *)
(***************************************************************************)
VARIABLES
    raw,          \* the locator text given to main
    script,       \* the responses the servers will give
    pc,           \* main, loop, await, read, done, panicked; idle
    view_source,  \* load's captured flag
    path,         \* load's visited locators
    ctx,          \* the RequestContext
    sent,         \* the requests written: [url, kind, id] of locator and transport
    response,     \* what the last read_response returned
    follower,     \* the last locator head.follow returned
    panic,        \* the failure that ended the run
    mode,         \* the renderer that printed the body
    output,       \* the text printed
    body,         \* show's argument
    scan          \* show's state: [pos, in_tag, out]

vars == <<raw, script, pc, view_source, path, ctx, sent, response, follower,
          panic, mode, output, body, scan>>

loadVars == <<raw, script, pc, view_source, path, ctx, sent, response, follower,
              panic, mode, output>>

NoUrl == [kind |-> "None"]
NoResponse == [kind |-> "None", value |-> "", pos |-> 0]

Init ==
    /\ raw \in InitUrls
    /\ script \in Scripts
    /\ pc = "main"
    /\ view_source = FALSE
    /\ path = <<>>
    /\ ctx = RequestContext_default
    /\ sent = <<>>
    /\ response = NoResponse
    /\ follower = NoUrl
    /\ panic = ""
    /\ mode = ""
    /\ output = ""
    /\ body = ""
    /\ scan = ShowStart

Panicked(msg) == pc' = "panicked" /\ panic' = msg

\* load's return through show or show_source.
Printed(r) == pc' = "done" /\ mode' = r.mode /\ output' = r.out

Rendered(text) == Printed(on_ok(view_source, path[Len(path)], text))

Redirected(f) ==
    /\ follower' = f.follower
    /\ path' = f.path
    /\ IF f.panic # "" THEN Panicked(f.panic) ELSE pc' = "loop" /\ UNCHANGED panic
    /\ UNCHANGED <<mode, output>>

\* main: Url::new on the argument, and load up to its loop.
Started(url) ==
    IF IsPanic(url)
    THEN /\ Panicked(url.msg)
         /\ UNCHANGED <<view_source, path>>
    ELSE /\ pc' = "loop"
         /\ view_source' = url.view_source
         /\ path' = <<url>>
         /\ UNCHANGED panic

Main ==
    /\ pc = "main"
    /\ Started(Url_new(raw))
    /\ UNCHANGED <<raw, script, ctx, sent, response, follower, mode, output, body, scan>>

\* head.request for a File locator, and load's Ok arms.
RequestFile ==
    /\ pc = "loop"
    /\ path[Len(path)].kind = "File"
    /\ \E content \in FileContents :
          IF content = NoFile
          THEN Panicked("Io") /\ UNCHANGED <<mode, output>>
          ELSE Rendered(content) /\ UNCHANGED panic
    /\ UNCHANGED <<raw, script, view_source, path, ctx, sent, response, follower, body, scan>>

\* RequestData with the content handed to load as the location of a redirect.
RequestData_follows ==
    /\ pc = "loop"
    /\ path[Len(path)].kind = "Data"
    /\ Redirected(on_redirect(path, path[Len(path)].content))
    /\ UNCHANGED <<raw, script, view_source, ctx, sent, response, body, scan>>

\* head.request for a Data locator, and load's Ok arms.
RequestData ==
    /\ pc = "loop"
    /\ path[Len(path)].kind = "Data"
    /\ Rendered(path[Len(path)].content)
    /\ UNCHANGED <<raw, script, view_source, path, ctx, sent, response, follower,
                   panic, body, scan>>

\* head.request for a Network locator up to the call of read_response: the
\* transport is looked up or built (the connection may fail) and the request
\* is written to it.
Sent(head, next) ==
    /\ ctx' = next
    /\ sent' = Append(sent, [url |-> head, kind |-> next.inner[head.addr].kind,
                             id |-> next.inner[head.addr].id])
    /\ pc' = "await"
    /\ UNCHANGED panic

RequestNetwork ==
    /\ pc = "loop"
    /\ IsNetwork(path[Len(path)])
    /\ \E connects \in BOOLEAN :
          IF path[Len(path)].addr \notin DOMAIN ctx.inner /\ ~connects
          THEN Panicked("ConnectError") /\ UNCHANGED <<ctx, sent>>
          ELSE Sent(path[Len(path)], send(ctx, path[Len(path)]))
    /\ UNCHANGED <<raw, script, view_source, path, response, follower, mode, output,
                   body, scan>>

\* The response the servers give to the k-th request.
Answer(k) == IF k <= Len(script) THEN script[k] ELSE Page

\* The server's answer arrives on the connection the request was written to.
Respond ==
    /\ pc = "await"
    /\ ctx' = received(ctx, sent[Len(sent)].url.addr, Wire(Answer(Len(sent))))
    /\ pc' = "read"
    /\ UNCHANGED <<raw, script, view_source, path, sent, response, follower, panic,
                   mode, output, body, scan>>

Responded(addr, r) ==
    /\ response' = r
    /\ ctx' = consumed(ctx, addr, r.pos)
    /\ IF r.kind = "Panic"
       THEN Panicked(r.value) /\ UNCHANGED <<path, follower, mode, output>>
       ELSE IF r.kind = "Ok"
       THEN Rendered(r.value) /\ UNCHANGED <<path, follower, panic>>
       ELSE Redirected(on_redirect(path, r.value))

\* read_response on the authority's reader, and the arm of load's loop that
\* its result selects.
ReadResponse ==
    /\ pc = "read"
    /\ Responded(path[Len(path)].addr,
                 read_response(ctx.inner[path[Len(path)].addr].rx,
                               ctx.inner[path[Len(path)].addr].pos))
    /\ UNCHANGED <<raw, script, view_source, sent, body, scan>>

Next == Main \/ RequestFile \/ RequestData \/ RequestNetwork \/ Respond \/ ReadResponse

Spec == Init /\ [][Next]_vars

\* The program runs on: main, load and every fetch take their next step (the
\* process is single-threaded and every call blocks until it returns).
\* Every step of Next changes pc, and while load has not ended one action of
\* Next can be taken (the actions are guarded by the value of pc and, at
\* "loop", by the variant of the last visited locator), so the fairness of
\* Next is the fairness of the step that moves pc on.
Advance ==
    /\ pc \in {"main", "loop", "await", "read"}
    /\ pc' \in {"loop", "await", "read", "done", "panicked"}

SpecLive == Init /\ [][Next]_vars /\ WF_pc(Advance)

(***************************************************************************)
(* show by itself, one turn of its loop at a time, on every body of        *)
(* Bodies.                                                                 *)
(***************************************************************************)
InitShow ==
    /\ body \in Bodies
    /\ scan = ShowStart
    /\ raw = ""
    /\ script = <<>>
    /\ pc = "idle"
    /\ view_source = FALSE
    /\ path = <<>>
    /\ ctx = RequestContext_default
    /\ sent = <<>>
    /\ response = NoResponse
    /\ follower = NoUrl
    /\ panic = ""
    /\ mode = ""
    /\ output = ""

ShowTurn ==
    /\ pc = "idle"
    /\ ~ShowDone(body, scan)
    /\ scan' = ShowStep(body, scan)
    /\ UNCHANGED <<body, loadVars>>

NextShow == ShowTurn

SpecShow == InitShow /\ [][NextShow]_vars

(***************************************************************************)
(* read_response by itself, on one response of ReadResponses: every        *)
(* combination of a status, a reason, a body and the presence and spelling *)
(* of the location, content-length and encoding headers, in two orders.    *)
(***************************************************************************)
ReadStatuses == {200, 300, 301, 302, 303, 304, 307, 308, 404, 500}

LocationHeaders == {<<>>, <<<<"Location", "/x">>>>, <<<<"LOCATION", " http://b/y ">>>>}

LengthHeaders(text) ==
    {<<>>, <<<<"Content-Length", to_string(Len(text))>>>>, <<<<"content-length", "1x">>>>}

EncodingHeaders ==
    {<<>>, <<<<"Transfer-Encoding", "chunked">>>>, <<<<"content-encoding", "gzip">>>>,
     <<<<"CONTENT-ENCODING", "br">>>>}

ResponsesWith(text) ==
    {[status |-> s, reason |-> rs, body |-> text,
      headers |-> IF first THEN e \o l \o n ELSE l \o n \o e] :
        s \in ReadStatuses, rs \in {"Any", ""},
        l \in LocationHeaders, n \in LengthHeaders(text), e \in EncodingHeaders,
        first \in BOOLEAN}

ReadResponses == ResponsesWith("") \cup ResponsesWith("hi")

InitRead ==
    /\ script \in {<<r>> : r \in ReadResponses}
    /\ pc = "parse"
    /\ response = NoResponse
    /\ raw = ""
    /\ view_source = FALSE
    /\ path = <<>>
    /\ ctx = RequestContext_default
    /\ sent = <<>>
    /\ follower = NoUrl
    /\ panic = ""
    /\ mode = ""
    /\ output = ""
    /\ body = ""
    /\ scan = ShowStart

\* Url::read_response on a reader that holds the response and nothing else.
ReadOne ==
    /\ pc = "parse"
    /\ response' = read_response(Wire(script[1]), 0)
    /\ pc' = "parsed"
    /\ UNCHANGED <<raw, script, view_source, path, ctx, sent, follower, panic, mode,
                   output, body, scan>>

NextRead == ReadOne

SpecRead == InitRead /\ [][NextRead]_vars

(***************************************************************************)
(* Url::new, Url::follow and the request text by themselves: Url::new on   *)
(* a locator text of UrlTexts, then one follow to a location of Locations  *)
(* or the text of the request for the locator.                             *)
(***************************************************************************)
\* The parts of a locator text [view-source:]S://H[:P][/rest]: tail is ""
\* or '/' and rest, port the text of P and its number (<<"", 0>>: no port).
Forms ==
    [marker : {"", "view-source:"}, scheme : {"http", "https"},
     host : {"a", "example.com"},
     port : {<<"", 0>>, <<"80", 80>>, <<"443", 443>>, <<"8443", 8443>>, <<"65535", 65535>>},
     tail : {"", "/", "/x", "/a/b", "//x?q=1"}]

Compose(f) ==
    f.marker \o f.scheme \o "://" \o f.host
    \o (IF f.port[1] = "" THEN "" ELSE ":" \o f.port[1]) \o f.tail

OtherTexts ==
    { "file:///tmp/x", "view-source:file:///tmp/x", "data:text/html,hi", "data:nocomma",
      "gopher://a/", "nonsense", "http://a:x/", "http://a:65536/" }

UrlTexts == {Compose(f) : f \in Forms} \cup OtherTexts

Locations ==
    { "/y", "/", "//d", "/y/", "http://b.com/z", "view-source:https://a:80/",
      "file:///tmp/x", "data:text/html,hi", "", "y" }

InitUrl ==
    /\ raw \in UrlTexts
    /\ pc = "new"
    /\ script = <<>>
    /\ response = NoResponse
    /\ view_source = FALSE
    /\ path = <<>>
    /\ ctx = RequestContext_default
    /\ sent = <<>>
    /\ follower = NoUrl
    /\ panic = ""
    /\ mode = ""
    /\ output = ""
    /\ body = ""
    /\ scan = ShowStart

Parsed(url) ==
    IF IsPanic(url) THEN Panicked(url.msg) /\ UNCHANGED path
    ELSE pc' = "parsed" /\ path' = <<url>> /\ UNCHANGED panic

\* Url::new on the text.
ParseOne ==
    /\ pc = "new"
    /\ Parsed(Url_new(raw))
    /\ UNCHANGED <<raw, script, view_source, ctx, sent, response, follower, mode,
                   output, body, scan>>

\* Url::follow from the locator to a location.
FollowOne ==
    /\ pc = "parsed"
    /\ \E location \in Locations :
          /\ response' = [kind |-> "Redirect", value |-> location, pos |-> 0]
          /\ follower' = follow(path[1], location)
    /\ pc' = "followed"
    /\ UNCHANGED <<raw, script, view_source, path, ctx, sent, panic, mode, output,
                   body, scan>>

\* The text Url::request writes for the locator.
RequestOne ==
    /\ pc = "parsed"
    /\ IsNetwork(path[1])
    /\ output' = request_text(path[1])
    /\ pc' = "requested"
    /\ UNCHANGED <<raw, script, view_source, path, ctx, sent, response, follower,
                   panic, mode, body, scan>>

NextUrl == ParseOne \/ FollowOne \/ RequestOne

SpecUrl == InitUrl /\ [][NextUrl]_vars

(***************************************************************************)
(* The redirect chain a script describes, independently of load: the       *)
(* locators reached from the initial one through the Location of each      *)
(* response of the form Moved, up to the first response of another form    *)
(* (or the end of the script), the first locator that cannot be followed   *)
(* to, or the first return to a member of the chain.  Members are compared *)
(* field by field, paths as texts.                                         *)
(***************************************************************************)
IsMoved(r) ==
    /\ is_redirect(r.status)
    /\ Len(r.headers) = 2
    /\ r.headers[1][1] = "Location"
    /\ r.headers[2] = <<"Content-Length", to_string(Len(r.body))>>

IsPage(r) ==
    /\ r.status = 200
    /\ Len(r.headers) >= 1
    /\ r.headers[Len(r.headers)] = <<"Content-Length", to_string(Len(r.body))>>
    /\ \A i \in 1..Len(r.headers) : r.headers[i][1] \in {"Content-Type", "Content-Length"}

RECURSIVE Chase(_, _)
Chase(chain, next) ==
    IF ~IsNetwork(chain[Len(chain)]) \/ ~IsMoved(Answer(Len(chain)))
    THEN [end |-> "stops", chain |-> chain]
    ELSE IF IsPanic(next) \/ ~IsNetwork(next) THEN [end |-> "stops", chain |-> chain]
    ELSE IF \E i \in 1..Len(chain) : chain[i] = next THEN [end |-> "cycle", chain |-> chain]
    ELSE Chase(Append(chain, next),
               IF IsMoved(Answer(Len(chain) + 1))
               THEN follow(next, Answer(Len(chain) + 1).headers[1][2])
               ELSE NoUrl)

\* The chain of the run: of the initial locator and the script.
Chain ==
    IF IsPanic(Url_new(raw)) THEN [end |-> "stops", chain |-> <<>>]
    ELSE Chase(<<Url_new(raw)>>,
               IF IsMoved(Answer(1)) THEN follow(Url_new(raw), Answer(1).headers[1][2])
               ELSE NoUrl)

Ended == pc \in {"done", "panicked"}

(***************************************************************************)
(* The claims.                                                             *)
(***************************************************************************)

\* C1: every request for an Https locator is written to a Tls transport and
\* every request for an Http locator to a Tcp transport, whatever locators
\* were fetched before, those of the same authority included.
C1_TransportMatchesScheme ==
    \A i \in 1..Len(sent) : (sent[i].url.kind = "Https") <=> (sent[i].kind = "Tls")

\* C2: read_response consumes exactly the response it parses.  Every call
\* of read_response finds the reader at the first byte of the response to its
\* request, with nothing of an earlier response left; after a response was
\* parsed (Ok or Redirect, the body of a redirect included), and on every
\* other authority's reader, all the text received is consumed.
C2_ExactConsumption ==
    \A a \in DOMAIN ctx.inner :
        LET t == ctx.inner[a]
            current == Len(sent) > 0 /\ a = sent[Len(sent)].url.addr
        IN  IF pc = "read" /\ current
            THEN SubSeq(t.rx, t.pos + 1, Len(t.rx)) = Wire(Answer(Len(sent)))
            ELSE (current /\ response.kind = "Panic" /\ pc = "panicked")
                 \/ t.pos = Len(t.rx)

\* The second response on a reused connection has been parsed, after a redirect
\* that carried a body.
C2_Witness ==
    /\ Len(sent) >= 2
    /\ sent[1].id = sent[2].id
    /\ Answer(1).body # ""
    /\ response.kind \in {"Ok", "Redirect"}
    /\ pc \in {"loop", "done"}
    /\ ctx.inner[sent[1].url.addr].pos = Len(Wire(Answer(1))) + Len(Wire(Answer(2)))

\* C3: the cache holds one transport per authority requested, built at the
\* first request to the authority and the one every later request to it
\* uses: the constructions number the distinct authorities requested.
C3_OneTransportPerAuthority ==
    /\ DOMAIN ctx.inner = {sent[i].url.addr : i \in 1..Len(sent)}
    /\ ctx.built = Cardinality({sent[i].url.addr : i \in 1..Len(sent)})
    /\ \A i, j \in 1..Len(sent) :
          (sent[i].url.addr = sent[j].url.addr) <=> (sent[i].id = sent[j].id)
    /\ \A i \in 1..Len(sent) : ctx.inner[sent[i].url.addr].id = sent[i].id

\* Three requests, two of them to one authority: two constructions.
C3_Witness ==
    /\ Len(sent) = 3
    /\ sent[1].url.addr # sent[2].url.addr
    /\ sent[2].url.addr = sent[3].url.addr
    /\ ctx.built = 2

C5_TenLocatorsRender ==
    (pc = "panicked" /\ panic = "TooManyRedirects")
        => ~(Len(path) <= MAX_REDIRECTS /\ IsPage(Answer(Len(path))))

\* C6: when the first 10 answers are redirects, each to a locator that is
\* not yet in the chain, load fails with TooManyRedirects, after at most 10
\* requests.
C6_TenRedirectsFail ==
    (Ended /\ panic # "ConnectError" /\ Len(Chain.chain) > MAX_REDIRECTS)
        => (panic = "TooManyRedirects" /\ Len(sent) <= MAX_REDIRECTS)

\* C7: load reports RedirectCycle only when the locator the redirect leads
\* to is identical, field for field and its path as text, to a locator
\* already visited.
C7_CycleOnlyOnIdenticalLocator ==
    (pc = "panicked" /\ panic = "RedirectCycle")
        => \E i \in 1..Len(path) : path[i] = follower

\* C8: the body is printed by show_source exactly when the initial locator
\* had view_source set, whatever the flag of the locator it was fetched from.
C8_ModeFromInitialLocator ==
    pc = "done" =>
        /\ mode = IF path[1].view_source THEN "show_source" ELSE "show"
        /\ path[1].view_source = starts_with(raw, "view-source:")

\* A body fetched after a redirect, from a locator whose flag differs from
\* the initial locator's.
C8_Witness ==
    /\ pc = "done"
    /\ Len(path) >= 2
    /\ path[1].view_source # path[Len(path)].view_source

\* The text from the '&' at the scan's position through the next ';', when
\* there is one and the name between them is none of lt and gt: "" otherwise.
UnknownEntityAhead ==
    LET rest == SubSeq(body, scan.pos, Len(body))
        semi == find(rest, ";")
    IN  IF ~ShowDone(body, scan) /\ starts_with(rest, "&") /\ semi # 0
           /\ SubSeq(rest, 2, semi - 1) \notin {"lt", "gt"}
        THEN SubSeq(rest, 1, semi)
        ELSE ""

\* C9: at an '&' that starts an unrecognized entity, a turn of show emits
\* the text from the '&' through the ';' and leaves the scan at the character
\* right after the ';', the tag flag as it was.
C9_ResumesAfterUnknownEntity ==
    [][UnknownEntityAhead # "" =>
          /\ scan'.out = scan.out \o UnknownEntityAhead
          /\ scan'.pos = scan.pos + Len(UnknownEntityAhead)
          /\ scan'.in_tag = scan.in_tag]_vars

\* The reference scan of C10: '<' sets and '>' clears the flag, "&lt;" and
\* "&gt;" emit '<' and '>' whatever the flag, any other character is emitted
\* when the flag is clear.
RECURSIVE Reference(_, _)
Reference(text, in_tag) ==
    IF text = "" THEN ""
    ELSE IF starts_with(text, "&lt;") THEN "<" \o Reference(SubSeq(text, 5, Len(text)), in_tag)
    ELSE IF starts_with(text, "&gt;") THEN ">" \o Reference(SubSeq(text, 5, Len(text)), in_tag)
    ELSE IF Head(text) = "<" THEN Reference(Tail(text), TRUE)
    ELSE IF Head(text) = ">" THEN Reference(Tail(text), FALSE)
    ELSE (IF in_tag THEN "" ELSE Head(text)) \o Reference(Tail(text), in_tag)

OnlyKnownEntities(text) ==
    \A k \in 1..Len(text) :
        Ch(text, k) = "&" => \/ starts_with(SubSeq(text, k, Len(text)), "&lt;")
                             \/ starts_with(SubSeq(text, k, Len(text)), "&gt;")

\* C10: on a body whose every '&' starts "&lt;" or "&gt;", show prints what
\* the reference scan gives.
C10_ShowIsReferenceScan ==
    (OnlyKnownEntities(body) /\ ShowDone(body, scan)) => scan.out = Reference(body, FALSE)

\* The example of the specification, scanned to its end.
C10_Witness ==
    /\ body = "<b>hi &lt; there</b>"
    /\ ShowDone(body, scan)
    /\ scan.out = "hi < there"

\* The text from the '&' at the scan's position to the end of the body, when
\* no ';' follows the '&': "" otherwise.
UnterminatedEntityAhead ==
    LET rest == SubSeq(body, scan.pos, Len(body))
    IN  IF ~ShowDone(body, scan) /\ starts_with(rest, "&") /\ ~contains(rest, ";")
        THEN rest
        ELSE ""

\* C11: at an '&' that no ';' follows, a turn of show emits the rest of the
\* body from the '&' on as it is, whatever the tag flag, and ends the scan:
\* nothing more is emitted.
C11_UnterminatedEntityVerbatim ==
    [][UnterminatedEntityAhead # "" =>
          /\ scan'.out = scan.out \o UnterminatedEntityAhead
          /\ ShowDone(body, scan')]_vars

\* The example of the specification, scanned to its end.
C11_Witness ==
    /\ body = "x&lt"
    /\ ShowDone(body, scan)
    /\ scan.out = "x&lt"

\* The response read_response was given, described by its headers as sent:
\* names without regard to case, values without the space around them.
HasHeader(r, name) == \E i \in 1..Len(r.headers) : to_lowercase(r.headers[i][1]) = name

HeaderValues(r, name) ==
    {trim(r.headers[i][2]) : i \in {j \in 1..Len(r.headers) : to_lowercase(r.headers[j][1]) = name}}

HasEncoding(r) == HasHeader(r, "transfer-encoding") \/ HasHeader(r, "content-encoding")

\* The response passes the steps before the status is looked at: no encoding
\* header, and a content-length that is the length of the body.
Framed(r) ==
    /\ ~HasEncoding(r)
    /\ HeaderValues(r, "content-length") = {to_string(Len(r.body))}

RedirectStatuses == {301, 302, 303, 307, 308}

\* C12: of a response that passes the steps before (see C13), read_response
\* returns Redirect(location) when the status is one of 301, 302, 303, 307, 308
\* and there is a location header, fails with MissingLocation when the status
\* is one of those and there is none, and returns Ok(body) for every other
\* status; a response with one of those statuses and a location header never
\* yields Ok, framed or not, and one of another status never Redirect.
C12_StatusSelectsResult ==
    pc = "parsed" =>
        LET r == script[1]
        IN  /\ (Framed(r) /\ r.status \in RedirectStatuses /\ HasHeader(r, "location"))
                   => /\ response.kind = "Redirect"
                      /\ response.value \in HeaderValues(r, "location")
            /\ (Framed(r) /\ r.status \in RedirectStatuses /\ ~HasHeader(r, "location"))
                   => /\ response.kind = "Panic"
                      /\ response.value = "MissingLocation"
            /\ (Framed(r) /\ r.status \notin RedirectStatuses)
                   => /\ response.kind = "Ok"
                      /\ response.value = r.body
            /\ (r.status \in RedirectStatuses /\ HasHeader(r, "location"))
                   => response.kind # "Ok"
            /\ (r.status \notin RedirectStatuses)
                   => /\ response.kind # "Redirect"
                      /\ ~(response.kind = "Panic" /\ response.value = "MissingLocation")

\* A 304 with a location header and a body has been read as Ok.
C12_Witness ==
    /\ pc = "parsed"
    /\ script[1].status = 304
    /\ HasHeader(script[1], "location")
    /\ script[1].body = "hi"
    /\ response.kind = "Ok"
    /\ response.value = "hi"

\* C13: a response with a transfer-encoding or content-encoding header, the
\* name in any case, makes read_response fail with UnsupportedEncoding,
\* whatever its status and its other headers, content-length and location
\* present, absent or malformed.
C13_EncodingFailsFirst ==
    (pc = "parsed" /\ HasEncoding(script[1]))
        => (response.kind = "Panic" /\ response.value = "UnsupportedEncoding")

\* A redirect status with an encoding header in capitals and neither
\* content-length nor location.
C13_Witness ==
    /\ pc = "parsed"
    /\ script[1].status = 301
    /\ script[1].headers = <<<<"CONTENT-ENCODING", "br">>>>
    /\ response.kind = "Panic"
    /\ response.value = "UnsupportedEncoding"

\* C15: for a Network locator u and a location l, follow(u, l) is, when l
\* starts with '/', the locator of u's variant, host and port with the path
\* l and view_source false, and Url::new(l) otherwise, with nothing of u.
C15_FollowResolves ==
    (pc = "followed" /\ IsNetwork(path[1])) =>
        IF starts_with(response.value, "/")
        THEN follower = [kind |-> path[1].kind, view_source |-> FALSE,
                         addr |-> path[1].addr, path |-> response.value,
                         media_type |-> "", content |-> ""]
        ELSE follower = Url_new(response.value)

\* A path redirect from a secure locator shown as source, on a port of its
\* own: the follower is secure, on that port, and not shown as source.
C15_Witness ==
    /\ pc = "followed"
    /\ raw = "view-source:https://a:8443/x"
    /\ response.value = "/y"
    /\ follower = Https(FALSE, <<"a", 8443>>, "/y")

\* The locator the text of the form f stands for.
FormLocator(f) ==
    [kind |-> IF f.scheme = "https" THEN "Https" ELSE "Http",
     view_source |-> f.marker = "view-source:",
     addr |-> <<f.host, IF f.port[1] # "" THEN f.port[2]
                        ELSE IF f.scheme = "https" THEN 443 ELSE 80>>,
     path |-> IF f.tail = "" THEN "/" ELSE f.tail,
     media_type |-> "", content |-> ""]

\* C16: on a text [view-source:]S://H[:P][/rest], S one of http and https,
\* Url::new gives the Network locator that is secure iff S is https, of host
\* H, of port P when given and else 80 for http and 443 for https, of path
\* '/' and rest ('/' when no '/' follows the authority), and with
\* view_source set iff the marker was there.
C16_NewParsesNetwork ==
    \A f \in Forms :
        (raw = Compose(f) /\ pc # "new") => (pc # "panicked" /\ path = <<FormLocator(f)>>)

\* The second example of the specification's parsing, with the marker.
C16_Witness ==
    /\ raw = "view-source:https://example.com:8443/a/b"
    /\ pc = "parsed"
    /\ path = <<Https(TRUE, <<"example.com", 8443>>, "/a/b")>>

\* C17: the request written for a Network locator is the GET line of its
\* path, the Host header (the host alone when the port is 80 on Http or 443
\* on Https, host:port for every other port), Connection: keep-alive, the
\* User-Agent and a blank line, and nothing after it.
C17_RequestText ==
    pc = "requested" =>
        output = "GET " \o path[1].path \o " HTTP/1.1\r\n"
                 \o "Host: " \o path[1].addr[1]
                 \o (IF \/ (path[1].kind = "Http" /\ path[1].addr[2] = 80)
                        \/ (path[1].kind = "Https" /\ path[1].addr[2] = 443)
                     THEN ""
                     ELSE ":" \o to_string(path[1].addr[2]))
                 \o "\r\n"
                 \o "Connection: keep-alive\r\n"
                 \o "User-Agent: vanadium/0.1.0\r\n"
                 \o "\r\n"

\* An Http locator on port 443: the port is written.
C17_Witness ==
    /\ pc = "requested"
    /\ raw = "http://a:443/x"
    /\ output = "GET /x HTTP/1.1\r\nHost: a:443\r\nConnection: keep-alive\r\n"
                 \o "User-Agent: vanadium/0.1.0\r\n\r\n"

\* C14: every Network locator of the visited sequence, the initial one and
\* those reached by path redirects and absolute redirects alike, has a path
\* that starts with '/', and every request written starts with "GET /".
C14_NetworkPathIsRooted ==
    /\ \A i \in 1..Len(path) : IsNetwork(path[i]) => starts_with(path[i].path, "/")
    /\ \A i \in 1..Len(sent) : starts_with(request_text(sent[i].url), "GET /")
    /\ \A a \in DOMAIN ctx.inner : ctx.inner[a].tx = "" \/ starts_with(ctx.inner[a].tx, "GET /")

\* Three requests: for the initial locator, for one reached by an absolute
\* redirect and for one reached from that by a path redirect.
C14_Witness ==
    /\ Len(sent) = 3
    /\ Len(script) = 2
    /\ script[1] = Moved(307, "https://a/s")
    /\ script[2] = Moved(301, "/d/")
    /\ path[3] = Https(FALSE, <<"a", 443>>, "/d/")

\* The visited sequence and the requests of C18: no locator is in the
\* sequence twice, the k-th request is for the k-th locator (so none is
\* requested twice; the last is not requested yet, or never when load has
\* failed), and there are at most MAX_REDIRECTS of either.
C18_VisitedOnce ==
    /\ \A i, j \in 1..Len(path) : i # j => ~Url_eq(path[i], path[j])
    /\ Len(sent) <= Len(path)
    /\ Len(path) <= Len(sent) + 1
    /\ \A k \in 1..Len(sent) : sent[k].url = path[k]
    /\ Len(path) <= MAX_REDIRECTS
    /\ Len(sent) <= MAX_REDIRECTS

\* What the next action of load needs to be taken is there: a locator to
\* request at "loop", the transport the request was written to at "await"
\* and at "read".
C18_CanStep ==
    /\ pc = "loop" => /\ Len(path) >= 1
                      /\ path[Len(path)].kind \in {"File", "Data", "Http", "Https"}
    /\ pc \in {"await", "read"} =>
          /\ Len(sent) = Len(path)
          /\ Len(path) >= 1
          /\ path[Len(path)].addr \in DOMAIN ctx.inner

\* C18: every load ends, by printing a body or by failing, whatever the
\* servers answer; until then the visited sequence grows by one locator on
\* each redirect followed and changes in no other way, it never holds a
\* locator twice, each of its locators is requested once, and the requests
\* number at most MAX_REDIRECTS.
C18_LoadTerminates ==
    /\ <>Ended
    /\ []C18_CanStep
    /\ []C18_VisitedOnce
    /\ [][pc # "main" =>
             \/ path' = path
             \/ /\ response'.kind = "Redirect"
                /\ path' = Append(path, follower')]_vars

\* The longest load that prints a body: nine locators, each requested.
C18_Witness ==
    /\ pc = "done"
    /\ Len(path) = MAX_REDIRECTS - 1
    /\ Len(sent) = MAX_REDIRECTS - 1

\* C19: load calls follow on Network locators only, and the cache is asked
\* for the transport of Network locators only.  A step of load's loop on a
\* File or Data locator ends the load, with the body printed (or with the
\* failure to read the file), and follows nowhere; no load fails with
\* UnsupportedOperation.
C19_FollowOnlyFromNetwork ==
    /\ [](panic # "UnsupportedOperation")
    /\ [](\A i \in 1..Len(sent) : IsNetwork(sent[i].url))
    /\ [][follower' # follower => IsNetwork(path[Len(path)])]_vars
    /\ [][(pc = "loop" /\ ~IsNetwork(path[Len(path)])) =>
             /\ pc' = "done" \/ (pc' = "panicked" /\ panic' = "Io")
             /\ follower' = follower
             /\ path' = path
             /\ ctx' = ctx]_vars

\* A File locator that a redirect put at the tail of the visited sequence
\* has been read and its text printed.
C19_Witness ==
    /\ pc = "done"
    /\ Len(path) = 2
    /\ path[2].kind = "File"
    /\ follower = path[2]
    /\ output = "x\n"

\* C20: every locator a redirect appends to the visited sequence is a
\* Network locator: a File or Data locator is fetched only as the initial one.
C20_RedirectsStayOnNetwork ==
    \A i \in 2..Len(path) : IsNetwork(path[i])

=============================================================================
